---- MODULE Spec2Model ----
(***************************************************************************)
(* A model of octarine (src/src/lib.rs): the Color value type, its         *)
(* conversions and channel-wise operators, and the two sequence            *)
(* generators ColorRange and ColorWheel.                                   *)
(*                                                                         *)
(* Color stores three u8 channels; every conversion goes through f32.      *)
(* The f32 arithmetic is modelled bit-exactly (IEEE 754 binary32, round    *)
(* to nearest, ties to even), because the range checks of the float        *)
(* constructors compare against f32::EPSILON and are decided by single     *)
(* rounding errors.                                                        *)
(***************************************************************************)
EXTENDS Integers, Sequences, FiniteSets, TLC

(***************************************************************************)
(* f32.  A finite f32 is the pair <<m, e>> standing for m * 2^e, in the    *)
(* canonical form of the binary32 format: 2^23 <= |m| < 2^24 (normal), or  *)
(* e = MinExp and |m| < 2^23 (subnormal and zero).  Infinities and NaN do  *)
(* not arise: every modelled magnitude is below 2^12 and every divisor is  *)
(* nonzero.  The sign of zero is not kept (no modelled operation reads     *)
(* it).                                                                    *)
(***************************************************************************)
MantBits == 24
MinExp == -149

Abs(x) == IF x < 0 THEN -x ELSE x
Sgn(x) == IF x < 0 THEN -1 ELSE 1
Max(x, y) == IF x >= y THEN x ELSE y
Min(x, y) == IF x <= y THEN x ELSE y

RECURSIVE BitLen(_)
BitLen(x) == IF x = 0 THEN 0 ELSE 1 + BitLen(x \div 2)

F32Zero == <<0, MinExp>>

\* x with bit 0 set when `sticky`: bits were lost below it.
Jam(x, sticky) == IF sticky /\ x % 2 = 0 THEN x + 1 ELSE x

\* x shifted right by d bits, the lost bits or-ed into bit 0.
ShiftRightJam(x, d) ==
  IF d = 0 THEN x
  ELSE IF d >= 31 THEN (IF x > 0 THEN 1 ELSE 0)
  ELSE Jam(x \div (2^d), x % (2^d) # 0)

\* mag / 2^k rounded to the nearest integer, ties to even (1 <= k <= 30).
RoundShift(mag, k) ==
  IF mag % (2^k) > 2^(k - 1)
     \/ (mag % (2^k) = 2^(k - 1) /\ (mag \div (2^k)) % 2 = 1)
  THEN (mag \div (2^k)) + 1
  ELSE mag \div (2^k)

\* sgn * q * 2^er for a rounded mantissa q <= 2^24.
F32Pack(sgn, q, er) ==
  IF q = 2^MantBits THEN <<sgn * (2^(MantBits - 1)), er + 1>>
  ELSE IF q = 0 THEN F32Zero
  ELSE <<sgn * q, er>>

\* sgn * mag * 2^e rounded to a multiple of 2^er.
F32RoundTo(sgn, mag, e, er) ==
  IF er <= e THEN <<sgn * mag * (2^(e - er)), er>>
  ELSE IF er - e >= 31
    THEN (IF er - e = 31 /\ mag > 2^30 THEN <<sgn, MinExp>> ELSE F32Zero)
  ELSE F32Pack(sgn, RoundShift(mag, er - e), er)

\* sgn * mag * 2^e rounded to the nearest f32, ties to even.  mag < 2^31;
\* its bit 0 may be a sticky bit when at least two bits are cut.
F32Round(sgn, mag, e) ==
  IF mag = 0 THEN F32Zero
  ELSE F32RoundTo(sgn, mag, e, Max(e + BitLen(mag) - MantBits, MinExp))

F32RoundSigned(S, e) == F32Round(Sgn(S), Abs(S), e)

\* a nonzero f32 with its mantissa scaled to 24 bits (exponent unbounded).
F32Normal(a) ==
  <<a[1] * (2^(MantBits - BitLen(Abs(a[1])))),
    a[2] - (MantBits - BitLen(Abs(a[1])))>>

F32Neg(a) == <<-a[1], a[2]>>

\* hi + lo for hi[2] >= lo[2]: three guard bits, then one rounding.
F32AddOrdered(hi, lo) ==
  F32RoundSigned(hi[1] * 8
                   + Sgn(lo[1]) * ShiftRightJam(Abs(lo[1]) * 8, hi[2] - lo[2]),
                 hi[2] - 3)

\* a + b
F32Add(a, b) ==
  IF a[2] >= b[2] THEN F32AddOrdered(a, b) ELSE F32AddOrdered(b, a)

\* a - b
F32Sub(a, b) == F32Add(a, F32Neg(b))

\* The 48-bit product H0 * 2^24 + L cut to its top bits and a sticky bit.
F32MulJoin(sgn, H0, L, e) ==
  F32Round(sgn,
           Jam((H0 + (L \div (2^24))) * 8 + ((L % (2^24)) \div (2^21)),
               L % (2^21) # 0),
           e)

\* The product of the mantissas a1 * 2^12 + a0 and b1 * 2^12 + b0.
F32MulParts(sgn, a1, a0, b1, b0, e) ==
  F32MulJoin(sgn, a1 * b1 + ((a1 * b0 + a0 * b1) \div 4096),
             ((a1 * b0 + a0 * b1) % 4096) * 4096 + a0 * b0, e)

F32MulNormal(sgn, x, y) ==
  F32MulParts(sgn, Abs(x[1]) \div 4096, Abs(x[1]) % 4096,
              Abs(y[1]) \div 4096, Abs(y[1]) % 4096, x[2] + y[2] + 21)

\* a * b
F32Mul(a, b) ==
  IF a[1] = 0 \/ b[1] = 0 THEN F32Zero
  ELSE F32MulNormal(Sgn(a[1]) * Sgn(b[1]), F32Normal(a), F32Normal(b))

\* One stage of the long division by mb: `bits` more quotient bits.
DivStep(qr, mb, bits) ==
  <<qr[1] * (2^bits) + ((qr[2] * (2^bits)) \div mb), (qr[2] * (2^bits)) % mb>>

\* floor(ma * 2^26 / mb) and the remainder, for 24-bit ma and mb.
DivBits(ma, mb) ==
  DivStep(DivStep(DivStep(DivStep(DivStep(<<ma \div mb, ma % mb>>,
                                          mb, 6), mb, 6), mb, 6), mb, 6), mb, 2)

F32DivPack(sgn, qr, e) == F32Round(sgn, Jam(qr[1], qr[2] # 0), e)

F32DivNormal(sgn, x, y) ==
  F32DivPack(sgn, DivBits(Abs(x[1]), Abs(y[1])), x[2] - y[2] - 26)

\* a / b for b # 0
F32Div(a, b) ==
  IF a[1] = 0 THEN F32Zero
  ELSE F32DivNormal(Sgn(a[1]) * Sgn(b[1]), F32Normal(a), F32Normal(b))

\* a < b: in the canonical form the order is that of (sign, exponent, mantissa).
F32Lt(a, b) ==
  \/ a[1] < 0 /\ b[1] >= 0
  \/ a[1] >= 0 /\ b[1] >= 0 /\ (a[2] < b[2] \/ (a[2] = b[2] /\ a[1] < b[1]))
  \/ a[1] < 0 /\ b[1] < 0 /\ (a[2] > b[2] \/ (a[2] = b[2] /\ a[1] < b[1]))
F32Gt(a, b) == F32Lt(b, a)
F32Ge(a, b) == ~F32Lt(a, b)

\* n as f32 for an integer |n| < 2^24 (u8 as f32, usize as f32).
F32FromInt(n) == F32Round(Sgn(n), Abs(n), 0)

\* f32::floor
F32Floor(a) ==
  IF a[2] >= 0 THEN a
  ELSE IF -a[2] >= 31 THEN (IF a[1] < 0 THEN F32FromInt(-1) ELSE F32Zero)
  ELSE IF a[1] >= 0 THEN F32FromInt(a[1] \div (2^(-a[2])))
  ELSE IF Abs(a[1]) % (2^(-a[2])) = 0 THEN F32FromInt(-(Abs(a[1]) \div (2^(-a[2]))))
  ELSE F32FromInt(-(Abs(a[1]) \div (2^(-a[2]))) - 1)

\* x as u8: truncation toward zero, saturating at 0 and 255.
F32ToU8(a) ==
  IF a[1] <= 0 THEN 0
  ELSE IF a[2] >= 0 THEN 255
  ELSE IF -a[2] >= 31 THEN 0
  ELSE Min(a[1] \div (2^(-a[2])), 255)

(***************************************************************************)
(* The f32 literals of lib.rs.  1.0 / 3.0 and 2.0 / 3.0 are constant       *)
(* expressions evaluated in f32; 0.1, 0.2 and 0.8 are the f32 nearest to   *)
(* the decimal literal, which is the correctly rounded quotient.           *)
(***************************************************************************)
F0 == F32Zero
F1 == F32FromInt(1)
F2 == F32FromInt(2)
F3 == F32FromInt(3)
F6 == F32FromInt(6)
F255 == F32FromInt(255)
FHalf == F32Div(F1, F2)
FThird == F32Div(F1, F3)
FTwoThirds == F32Div(F2, F3)
EPSILON == <<2^(MantBits - 1), 2 - 2 * MantBits>>

(***************************************************************************)
(* Values.  A Color is the tuple <<r, g, b>> of u8 channels.  A call that  *)
(* panics yields Panic; an Option<Color> is None or Some(c).               *)
(***************************************************************************)
U8Max == 255
Panic == <<"panic">>
\* A call that never returns.
Hang == <<"hang">>
None == <<"None">>
Some(c) == <<"Some", c>>
IsColor(x) == Len(x) = 3

new(r, g, b) == <<r, g, b>>
WHITE == new(U8Max, U8Max, U8Max)
BLACK == new(0, 0, 0)

\* One `if` of test_color_value_range!: the component is out of range.
OutOfRange(x) ==
  F32Lt(F32Add(x, EPSILON), F0) \/ F32Gt(F32Sub(x, EPSILON), F1)

\* (x * 255.0 + 0.5) as u8
Quantize(x) == F32ToU8(F32Add(F32Mul(x, F255), FHalf))

from_rgb_float(r, g, b) ==
  IF OutOfRange(r) \/ OutOfRange(g) \/ OutOfRange(b) THEN Panic
  ELSE <<Quantize(r), Quantize(g), Quantize(b)>>

to_rgb_float(c) ==
  <<F32Div(F32FromInt(c[1]), F255), F32Div(F32FromInt(c[2]), F255),
    F32Div(F32FromInt(c[3]), F255)>>

\* while v_h < 0.0 { v_h += 1.0 }: the loop never ends once the addition
\* leaves v_h as it is.
RECURSIVE HueWrapUp(_)
HueWrapUp(v_h) ==
  IF F32Lt(v_h, F0)
  THEN (IF F32Add(v_h, F1) = v_h THEN Hang ELSE HueWrapUp(F32Add(v_h, F1)))
  ELSE v_h

\* while v_h > 1.0 { v_h -= 1.0 }: likewise.
RECURSIVE HueWrapDown(_)
HueWrapDown(v_h) ==
  IF v_h = Hang THEN Hang
  ELSE IF F32Gt(v_h, F1)
  THEN (IF F32Sub(v_h, F1) = v_h THEN Hang ELSE HueWrapDown(F32Sub(v_h, F1)))
  ELSE v_h

\* The four bands of hue_to_rgb, for the wrapped v_h.
HueBands(v1, v2, v_h) ==
  IF F32Lt(F32Mul(F6, v_h), F1)
    THEN F32Add(v1, F32Mul(F32Mul(F32Sub(v2, v1), F6), v_h))
  ELSE IF F32Lt(F32Mul(F2, v_h), F1) THEN v2
  ELSE IF F32Lt(F32Mul(F3, v_h), F2)
    THEN F32Add(v1, F32Mul(F32Mul(F32Sub(v2, v1), F32Sub(FTwoThirds, v_h)), F6))
  ELSE v1

HueAfterWrap(v1, v2, v_h) == IF v_h = Hang THEN Hang ELSE HueBands(v1, v2, v_h)

hue_to_rgb(v1, v2, v_h) == HueAfterWrap(v1, v2, HueWrapDown(HueWrapUp(v_h)))

\* Self::from_rgb_float(r, g, b), reached when the three calls have returned.
FromHslJoin(r, g, b) ==
  IF r = Hang \/ g = Hang \/ b = Hang THEN Hang ELSE from_rgb_float(r, g, b)

\* from_hsl once v1 and v2 are known.
FromHslChannels(h, v1, v2) ==
  FromHslJoin(hue_to_rgb(v1, v2, F32Add(h, FThird)),
              hue_to_rgb(v1, v2, h),
              hue_to_rgb(v1, v2, F32Sub(h, FThird)))

\* from_hsl once v2 is known: v1 = 2.0 * l - v2.
FromHslLevels(h, l, v2) == FromHslChannels(h, F32Sub(F32Mul(F2, l), v2), v2)

from_hsl(h, s, l) ==
  IF OutOfRange(s) \/ OutOfRange(l) THEN Panic
  ELSE IF s = F0 THEN from_rgb_float(l, l, l)
  ELSE FromHslLevels(h, l,
                     IF F32Lt(l, FHalf) THEN F32Mul(l, F32Add(F1, s))
                     ELSE F32Sub(F32Add(l, s), F32Mul(s, l)))

\* The sector table of from_hsv.
FromHsvTable(v, v_i, v1, v2, v3) ==
  IF v_i = F0 THEN from_rgb_float(v, v3, v1)
  ELSE IF v_i = F1 THEN from_rgb_float(v2, v, v1)
  ELSE IF v_i = F2 THEN from_rgb_float(v1, v, v3)
  ELSE IF v_i = F3 THEN from_rgb_float(v1, v2, v)
  ELSE IF v_i = F32FromInt(4) THEN from_rgb_float(v3, v1, v)
  ELSE from_rgb_float(v, v1, v2)

\* from_hsv once v_i and the remainder fr = v_h - v_i are known.
FromHsvParts(s, v, v_i, fr) ==
  FromHsvTable(v, v_i,
               F32Mul(v, F32Sub(F1, s)),
               F32Mul(v, F32Sub(F1, F32Mul(s, fr))),
               F32Mul(v, F32Sub(F1, F32Mul(s, F32Sub(F1, fr)))))

FromHsvFloor(s, v, v_h, v_i) == FromHsvParts(s, v, v_i, F32Sub(v_h, v_i))

\* from_hsv once v_h is known (after `if v_h == 6.0 { v_h = 0.0 }`).
FromHsvSector(s, v, v_h) == FromHsvFloor(s, v, v_h, F32Floor(v_h))

\* h * 6.0, and 0.0 when that is 6.0.
HsvScale(v_h) == IF v_h = F6 THEN F0 ELSE v_h

\* Fault injection: from_hsv with the hue put under the range test as well.
from_hsv_hue_checked(h, s, v) ==
  IF OutOfRange(h) \/ OutOfRange(s) \/ OutOfRange(v) THEN Panic
  ELSE IF s = F0 THEN from_rgb_float(v, v, v)
  ELSE FromHsvSector(s, v, HsvScale(F32Mul(h, F6)))

from_hsv(h, s, v) ==
  IF OutOfRange(s) \/ OutOfRange(v) THEN Panic
  ELSE IF s = F0 THEN from_rgb_float(v, v, v)
  ELSE FromHsvSector(s, v, HsvScale(F32Mul(h, F6)))

\* (((v_max - x) / 6.0) + (diff / 2.0)) / diff
HueDelta(v_max, diff, x) ==
  F32Div(F32Add(F32Div(F32Sub(v_max, x), F6), F32Div(diff, F2)), diff)

\* if h < 0.0 { h += 1.0 }
HueFixLow(h) == IF F32Lt(h, F0) THEN F32Add(h, F1) ELSE h

\* if h > 1.0 { h -= 1.0 }
HueFixHigh(h) == IF F32Gt(h, F1) THEN F32Sub(h, F1) ELSE h

\* The branch on the greatest channel, then the two corrections.
HueBranch(rgb, v_max, dr, dg, db) ==
  HueFixHigh(HueFixLow(
    IF rgb[1] = v_max THEN F32Sub(db, dg)
    ELSE IF rgb[2] = v_max THEN F32Sub(F32Add(FThird, dr), db)
    ELSE F32Sub(F32Add(FTwoThirds, dg), dr)))

HueOfFloat(rgb, v_max, diff) ==
  HueBranch(rgb, v_max, HueDelta(v_max, diff, rgb[1]),
            HueDelta(v_max, diff, rgb[2]), HueDelta(v_max, diff, rgb[3]))

\* The hue of to_hsl and to_hsv (the same lines in both), for diff >= EPSILON.
HueOf(c, v_max, diff) == HueOfFloat(to_rgb_float(c), v_max, diff)

\* min and max of the channels as f32 / 255.0
VMin(c) == F32Div(F32FromInt(Min(Min(c[1], c[2]), c[3])), F255)
VMax(c) == F32Div(F32FromInt(Max(Max(c[1], c[2]), c[3])), F255)

\* to_hsl once l = v_sum / 2.0 is known.
ToHslLightness(c, v_max, diff, v_sum, l) ==
  IF F32Lt(diff, EPSILON) THEN <<F0, F0, l>>
  ELSE <<HueOf(c, v_max, diff),
         IF F32Lt(l, FHalf) THEN F32Div(diff, v_sum)
         ELSE F32Div(diff, F32Sub(F2, v_sum)),
         l>>

ToHslSum(c, v_max, diff, v_sum) ==
  ToHslLightness(c, v_max, diff, v_sum, F32Div(v_sum, F2))

ToHslMinMax(c, v_min, v_max) ==
  ToHslSum(c, v_max, F32Sub(v_max, v_min), F32Add(v_min, v_max))

to_hsl(c) == ToHslMinMax(c, VMin(c), VMax(c))

ToHsvDiff(c, v_max, diff) ==
  IF F32Lt(diff, EPSILON) THEN <<F0, F0, v_max>>
  ELSE <<HueOf(c, v_max, diff), F32Div(diff, v_max), v_max>>

ToHsvMinMax(c, v_min, v_max) == ToHsvDiff(c, v_max, F32Sub(v_max, v_min))

to_hsv(c) == ToHsvMinMax(c, VMin(c), VMax(c))

(***************************************************************************)
(* The HSL and HSV setters.  Each yields the `color` it computes before    *)
(* the three channel assignments: a Color, Panic or Hang.                  *)
(***************************************************************************)
set_hsl_hue(self, hue) == from_hsl(hue, to_hsl(self)[2], to_hsl(self)[3])
set_hsl_saturation(self, saturation) ==
  from_hsl(to_hsl(self)[1], saturation, to_hsl(self)[3])
set_hsl_luminance(self, luminance) ==
  from_hsl(to_hsl(self)[1], to_hsl(self)[2], luminance)
set_hsv_hue(self, hue) == from_hsv(hue, to_hsv(self)[2], to_hsv(self)[3])
set_hsv_saturation(self, saturation) ==
  from_hsv(to_hsv(self)[1], saturation, to_hsv(self)[3])
set_hsv_value(self, value) == from_hsv(to_hsv(self)[1], to_hsv(self)[2], value)

(***************************************************************************)
(* The channel-wise operators.  u8 arithmetic is written with its width:   *)
(* `as u8` keeps the low 8 bits, a usize product is taken modulo           *)
(* 2^UsizeBits (16 bits is the narrowest usize of any Rust target, so a    *)
(* product that fits there fits everywhere), and a u8 subtraction that     *)
(* would go below zero is an arithmetic overflow.                          *)
(***************************************************************************)
UsizeBits == 16

AsU8(n) == n % (U8Max + 1)
\* Fault injection: the product taken in u8, wrapping.
U8Mul(x, y) == (x * y) % (U8Max + 1)
UsizeMul(x, y) == (x * y) % (2^UsizeBits)
U8Sub(x, y) == x - y

\* Fault injection: wrapping instead of saturating addition.
wrapping_add(x, y) == (x + y) % (U8Max + 1)
\* Fault injection: the difference clamped at 0 instead of its magnitude.
clamped_diff(x, y) == IF x < y THEN 0 ELSE x - y

saturating_add(x, y) == IF x + y > U8Max THEN U8Max ELSE x + y
saturating_sub(x, y) == IF x < y THEN 0 ELSE x - y
abs_diff(x, y) == IF x >= y THEN x - y ELSE y - x

\* (x as usize * y as usize / 255) as u8
MulChannel(x, y) == AsU8(UsizeMul(x, y) \div 255)

\* Fault injection: screen without the outer complement.
ScreenChannelNoComplement(x, y) ==
  AsU8(((255 - x) * (255 - y)) \div 255)

\* 255 - (((255 - x) as usize * (255 - y) as usize) / 255) as u8
ScreenChannel(x, y) ==
  U8Sub(255, AsU8(UsizeMul(U8Sub(255, x), U8Sub(255, y)) \div 255))

Mul(self, rhs) ==
  new(MulChannel(self[1], rhs[1]), MulChannel(self[2], rhs[2]),
      MulChannel(self[3], rhs[3]))

Add(self, rhs) ==
  new(saturating_add(self[1], rhs[1]), saturating_add(self[2], rhs[2]),
      saturating_add(self[3], rhs[3]))

Sub(self, rhs) ==
  new(saturating_sub(self[1], rhs[1]), saturating_sub(self[2], rhs[2]),
      saturating_sub(self[3], rhs[3]))

\* u8 / u8 panics on a zero divisor ("attempt to divide by zero").
Div(self, rhs) ==
  IF rhs[1] = 0 \/ rhs[2] = 0 \/ rhs[3] = 0 THEN Panic
  ELSE new(self[1] \div rhs[1], self[2] \div rhs[2], self[3] \div rhs[3])

screen(self, other) ==
  new(ScreenChannel(self[1], other[1]), ScreenChannel(self[2], other[2]),
      ScreenChannel(self[3], other[3]))

difference(self, other) ==
  new(abs_diff(self[1], other[1]), abs_diff(self[2], other[2]),
      abs_diff(self[3], other[3]))

overlay(self, other) == screen(self, Mul(self, other))

invert(self) == difference(self, new(255, 255, 255))

(***************************************************************************)
(* from_hex and to_hex.  A u32 is the pair <<high, low>> of its 16-bit     *)
(* halves.                                                                 *)
(***************************************************************************)
HalfBits == 16

\* x & (2^n - 1): the masks 0xFFFFFF, 0xFFFF and 0xFF
U32KeepLow(x, n) ==
  IF n >= HalfBits THEN <<x[1] % (2^(n - HalfBits)), x[2]>>
  ELSE <<0, x[2] % (2^n)>>

\* x >> n for n <= 16
U32Shr(x, n) ==
  <<x[1] \div (2^n), (x[1] % (2^n)) * (2^(HalfBits - n)) + (x[2] \div (2^n))>>

\* x << n for n <= 16, the bits pushed beyond bit 31 dropped
U32Shl(x, n) ==
  <<((x[1] * (2^n)) % (2^HalfBits)) + (x[2] \div (2^(HalfBits - n))),
    (x[2] % (2^(HalfBits - n))) * (2^n)>>

RECURSIVE BitOr(_, _)
BitOr(a, b) ==
  IF a = 0 THEN b
  ELSE IF b = 0 THEN a
  ELSE Max(a % 2, b % 2) + 2 * BitOr(a \div 2, b \div 2)

\* x | y
U32Or(x, y) == <<BitOr(x[1], y[1]), BitOr(x[2], y[2])>>

\* `as u8` of a u32, `as u32` of a u8
U32AsU8(x) == x[2] % (U8Max + 1)
U8AsU32(v) == <<0, v>>

\* Fault injection: from_hex reading the channels in the order to_hex packs them.
from_hex_low_byte_first(rgb) ==
  new(U32AsU8(U32KeepLow(rgb, 8)),
      U32AsU8(U32Shr(U32KeepLow(rgb, 16), 8)),
      U32AsU8(U32Shr(U32KeepLow(rgb, 24), 16)))

from_hex(rgb) ==
  new(U32AsU8(U32Shr(U32KeepLow(rgb, 24), 16)),
      U32AsU8(U32Shr(U32KeepLow(rgb, 16), 8)),
      U32AsU8(U32KeepLow(rgb, 8)))

\* r | g | b with b = self.2 << 16, g = self.1 << 8, r = self.0
to_hex(self) ==
  U32Or(U32Or(U8AsU32(self[1]), U32Shl(U8AsU32(self[2]), 8)),
        U32Shl(U8AsU32(self[3]), 16))

(***************************************************************************)
(* ColorRange.                                                             *)
(***************************************************************************)
NoRange ==
  [total_steps |-> 0, current_step |-> 0, step |-> <<F0, F0, F0>>,
   start_color_hsl |-> <<F0, F0, F0>>]

\* Fault injection: steps - 1 saturating at 0 instead of checked.
saturating_steps(x, y) == <<"Some", IF x < y THEN 0 ELSE x - y>>

\* usize::checked_sub
checked_sub(x, y) == IF x < y THEN None ELSE <<"Some", x - y>>

\* ColorRange::new once both endpoints are in HSL (s, e) and nb = steps - 1.
\* With nb = 0 the three quotients by 0.0 are computed and dropped.
RangeOfHsl(s, e, nb, steps) ==
  [total_steps |-> steps, current_step |-> 0,
   step |-> IF nb > 0
            THEN <<F32Div(F32Sub(e[1], s[1]), F32FromInt(nb)),
                   F32Div(F32Sub(e[2], s[2]), F32FromInt(nb)),
                   F32Div(F32Sub(e[3], s[3]), F32FromInt(nb))>>
            ELSE <<F0, F0, F0>>,
   start_color_hsl |-> s]

\* The expect() on steps.checked_sub(1): [panicked, value].
RangeOfSub(start_color, end_color, steps, sub) ==
  IF sub = None THEN [panicked |-> TRUE, value |-> NoRange]
  ELSE [panicked |-> FALSE,
        value |-> RangeOfHsl(to_hsl(start_color), to_hsl(end_color), sub[2], steps)]

ColorRange_new(start_color, end_color, steps) ==
  RangeOfSub(start_color, end_color, steps, checked_sub(steps, 1))

\* Color::range_to
range_to(self, value, steps) == ColorRange_new(self, value, steps)

\* start_color_hsl.i + step.i * current_step as f32
RangeComponent(self, i) ==
  F32Add(self.start_color_hsl[i],
         F32Mul(self.step[i], F32FromInt(self.current_step)))

\* The end of next(): a panic of from_hsl leaves self as it was.
RangeYield(self, color) ==
  IF color = Panic THEN [out |-> Panic, self |-> self]
  ELSE [out |-> Some(color), self |-> [self EXCEPT !.current_step = @ + 1]]

\* ColorRange::next: [out, self].
ColorRange_next(self) ==
  IF self.current_step = self.total_steps THEN [out |-> None, self |-> self]
  ELSE RangeYield(self, from_hsl(RangeComponent(self, 1), RangeComponent(self, 2),
                                 RangeComponent(self, 3)))

(***************************************************************************)
(* ColorWheel.  The SmallRng field is not kept: a draw of                  *)
(* gen_range(0.1..0.2) is any f32 of the half-open range.                  *)
(***************************************************************************)
ShiftLow == F32Div(F1, F32FromInt(10))
ShiftHigh == F32Div(F1, F32FromInt(5))
InShiftRange(x) == F32Ge(x, ShiftLow) /\ F32Lt(x, ShiftHigh)
WheelValue == F32Div(F32FromInt(4), F32FromInt(5))

ColorWheel_default == [phase |-> F0]

with_starting_point(start) ==
  [phase |-> IF F32Ge(start, F1) THEN F32Sub(start, F1) ELSE start]

\* Fault injection: the phase never wrapped.
WheelWrapNever(phase) == phase

\* if self.phase >= 1.0 { self.phase -= 1.0 }
WheelWrap(phase) == IF F32Ge(phase, F1) THEN F32Sub(phase, F1) ELSE phase

WheelResult(color) == IF color = Panic THEN Panic ELSE Some(color)

\* Some(Color::from_hsv(self.phase, 1.0, 0.8)), the phase already stored.
WheelEmit(phase) ==
  [out |-> WheelResult(from_hsv(phase, F1, WheelValue)),
   self |-> [phase |-> phase]]

\* Fault injection: the shift subtracted from the phase.
ColorWheel_next_backwards(self, shift) ==
  WheelEmit(WheelWrap(F32Sub(self.phase, shift)))

\* ColorWheel::next: [out, self].
ColorWheel_next(self, shift) == WheelEmit(WheelWrap(F32Add(self.phase, shift)))

(***************************************************************************)
(* State.  Three objects, each explored by a specification of its own:     *)
(*   Spec       one application of a channel-wise operator to two Colors;  *)
(*   SpecRange  a ColorRange: range_to, then calls to next();              *)
(*   SpecWheel  a ColorWheel: construction, then calls to next().          *)
(* rgArgs, rgHist, cwHues and cwHist are history variables: the arguments  *)
(* of range_to, what each next() returned, and the hue phases the wheel    *)
(* passed to from_hsv.                                                     *)
(***************************************************************************)
VARIABLES lhs, rhs, op, out,
          rgPc, rgArgs, rg, rgHist,
          cwPc, cw, cwHues, cwHist, cwStart,
          hxPc, hxIn, hxColor, hxOut, hxBack,
          fcPc, fcOp, fcArgs, fcOut, fcTurned,
          stPc, stColor, stCall, stOld

opVars == <<lhs, rhs, op, out>>
rgVars == <<rgPc, rgArgs, rg, rgHist>>
cwVars == <<cwPc, cw, cwHues, cwHist, cwStart>>
hxVars == <<hxPc, hxIn, hxColor, hxOut, hxBack>>
fcVars == <<fcPc, fcOp, fcArgs, fcOut, fcTurned>>
stVars == <<stPc, stColor, stCall, stOld>>
vars ==
  <<lhs, rhs, op, out, rgPc, rgArgs, rg, rgHist, cwPc, cw, cwHues, cwHist,
    cwStart, hxPc, hxIn, hxColor, hxOut, hxBack, fcPc, fcOp, fcArgs, fcOut,
    fcTurned, stPc, stColor, stCall, stOld>>

\* Bounds of the exploration.
MaxSteps == 6
MaxExtraCalls == 2
MaxWheelCalls == 3

\* Channel values of the operands: the ends of the u8 range and the channels
\* of the test vectors 0xFF9999, 0xCCCCCC and (10, 10, 10).
OpChannels == {0, 10, 153, 204, 255}
OpGrid == {new(r, g, b) : r \in OpChannels, g \in OpChannels, b \in OpChannels}
\* One color for each value of the red channel, so that every pair of channel
\* values meets in the red channel of some pair of operands.
OpSweep == {new(x, U8Max - x, x \div 2) : x \in 0..U8Max}
OpColors == OpGrid \cup OpSweep

\* Endpoints of the ranges: the colors of tests::range_to (red, lime, black,
\* white), 0xAAFFCC of tests::add, and grey, pink and cyan-like colors.
RangeColors ==
  {new(255, 0, 0), new(0, 255, 0), new(0, 0, 0), new(255, 255, 255),
   new(100, 100, 100), new(170, 255, 204), new(255, 170, 170),
   new(1, 255, 255), new(255, 153, 153), new(12, 200, 77)}

\* Draws of gen_range(0.1..0.2): the least and the greatest f32 of the range
\* and some between; ShiftHigh itself is outside the half-open range.
ShiftSamples ==
  {ShiftLow, <<15099494, -27>>, <<8388608, -26>>, <<10066330, -26>>,
   <<13421772, -26>>, ShiftHigh}
Shifts == {x \in ShiftSamples : InShiftRange(x)}

\* Starting points handed to with_starting_point: 0.5, 0.75, 0.95, 1.5, 3.0
\* (the one of tests::color_wheel) and -0.25; and the ends of [0, 1) and of
\* [1, 2): 0.0, the f32 next below 1.0, 1.0 and the f32 next below 2.0.
StartPoints ==
  {FHalf, F32Div(F3, F32FromInt(4)), F32Div(F32FromInt(19), F32FromInt(20)),
   F32Div(F3, F2), F3, F32Neg(F32Div(F1, F32FromInt(4))),
   F0, <<2^MantBits - 1, -MantBits>>, F1, <<2^MantBits - 1, 1 - MantBits>>}

Idle == <<"idle">>

OpIdle == lhs = BLACK /\ rhs = BLACK /\ op = "none" /\ out = Idle
RangeIdle ==
  rgPc = "start" /\ rgArgs = <<BLACK, BLACK, 0>> /\ rg = NoRange /\ rgHist = <<>>
WheelIdle ==
  /\ cwPc = "start" /\ cw = ColorWheel_default /\ cwHues = <<>> /\ cwHist = <<>>
  /\ cwStart = F0
HexIdle ==
  /\ hxPc = "start" /\ hxIn = <<0, 0>> /\ hxColor = BLACK /\ hxOut = <<0, 0>>
  /\ hxBack = BLACK
FloatIdle ==
  /\ fcPc = "start" /\ fcOp = "none" /\ fcArgs = <<F0, F0, F0>> /\ fcOut = Idle
  /\ fcTurned = Idle
SetterIdle ==
  stPc = "idle" /\ stColor = BLACK /\ stCall = <<"none", F0>> /\ stOld = BLACK

(***************************************************************************)
(* Spec: the operators.                                                    *)
(***************************************************************************)
Init ==
  /\ lhs \in OpColors /\ rhs \in OpColors /\ op = "none" /\ out = Idle
  /\ RangeIdle /\ WheelIdle /\ HexIdle /\ FloatIdle /\ SetterIdle

Apply(name, result) ==
  /\ op = "none"
  /\ op' = name
  /\ out' = result
  /\ UNCHANGED <<lhs, rhs, rgVars, cwVars, hxVars, fcVars, stVars>>

OpAdd == Apply("add", Add(lhs, rhs))
OpSub == Apply("sub", Sub(lhs, rhs))
OpMul == Apply("mul", Mul(lhs, rhs))
OpDiv == Apply("div", Div(lhs, rhs))
OpScreen == Apply("screen", screen(lhs, rhs))
OpDifference == Apply("difference", difference(lhs, rhs))
OpOverlay == Apply("overlay", overlay(lhs, rhs))
OpInvert == Apply("invert", invert(lhs))

Next ==
  \/ OpAdd \/ OpSub \/ OpMul \/ OpDiv
  \/ OpScreen \/ OpDifference \/ OpOverlay \/ OpInvert

Spec == Init /\ [][Next]_vars

(***************************************************************************)
(* SpecRange: a ColorRange.                                                *)
(***************************************************************************)
RangeInit ==
  OpIdle /\ RangeIdle /\ WheelIdle /\ HexIdle /\ FloatIdle /\ SetterIdle

\* start.range_to(end, steps)
RangeTo(start, end, steps) ==
  /\ rgPc = "start"
  /\ LET r == range_to(start, end, steps)
     IN /\ rgPc' = IF r.panicked THEN "new_panicked" ELSE "built"
        /\ rg' = r.value
  /\ rgArgs' = <<start, end, steps>>
  /\ UNCHANGED <<rgHist, opVars, cwVars, hxVars, fcVars, stVars>>

\* range.next(); calls after the range is exhausted are followed up to
\* MaxExtraCalls of them.  A panic ends the run.
RangeNextCall ==
  /\ rgPc = "built"
  /\ Len(rgHist) < rg.total_steps + MaxExtraCalls
  /\ LET r == ColorRange_next(rg)
     IN /\ rg' = r.self
        /\ rgHist' = Append(rgHist, r.out)
        /\ rgPc' = IF r.out = Panic THEN "next_panicked" ELSE "built"
  /\ UNCHANGED <<rgArgs, opVars, cwVars, hxVars, fcVars, stVars>>

RangeNext ==
  \/ \E start \in RangeColors, end \in RangeColors, steps \in 0..MaxSteps :
       RangeTo(start, end, steps)
  \/ RangeNextCall

SpecRange == RangeInit /\ [][RangeNext]_vars

(***************************************************************************)
(* SpecWheel: a ColorWheel.                                                *)
(***************************************************************************)
WheelInit ==
  OpIdle /\ RangeIdle /\ WheelIdle /\ HexIdle /\ FloatIdle /\ SetterIdle

\* ColorWheel::new()
WheelNew ==
  /\ cwPc = "start"
  /\ cwPc' = "built"
  /\ cw' = ColorWheel_default
  /\ cwStart' = F0
  /\ UNCHANGED <<cwHues, cwHist, opVars, rgVars, hxVars, fcVars, stVars>>

\* ColorWheel::with_starting_point(start)
WheelWithStartingPoint(start) ==
  /\ cwPc = "start"
  /\ cwPc' = "built"
  /\ cw' = with_starting_point(start)
  /\ cwStart' = start
  /\ UNCHANGED <<cwHues, cwHist, opVars, rgVars, hxVars, fcVars, stVars>>

\* wheel.next() with the draw `shift`
WheelNextCall(shift) ==
  /\ cwPc = "built"
  /\ Len(cwHist) < MaxWheelCalls
  /\ LET r == ColorWheel_next(cw, shift)
     IN /\ cw' = r.self
        /\ cwHist' = Append(cwHist, r.out)
        /\ cwHues' = Append(cwHues, r.self.phase)
        /\ cwPc' = IF r.out = Panic THEN "panicked" ELSE "built"
  /\ UNCHANGED <<cwStart, opVars, rgVars, hxVars, fcVars, stVars>>

WheelNext ==
  \/ WheelNew
  \/ \E start \in StartPoints : WheelWithStartingPoint(start)
  \/ \E shift \in Shifts : WheelNextCall(shift)

SpecWheel == WheelInit /\ [][WheelNext]_vars

(***************************************************************************)
(* SpecWheelTurns: a ColorWheel whose owner keeps calling next(), without  *)
(* the history of the calls.  The draws are the multiples of 1/128 in the  *)
(* range, the starting points 0.5, 3.0, -0.25, 2^25 and -2^25.  The state  *)
(* of the SmallRng is not kept, so a call that leaves the phase as it was  *)
(* is a stuttering step: the calls go on, the wheel does not move.  The    *)
(* calls are weakly fair, the owner never ceasing to call next().          *)
(***************************************************************************)
TurnShifts ==
  {x \in {F32Div(F32FromInt(k), F32FromInt(128)) : k \in 12..26} : InShiftRange(x)}

FHuge == <<2^(MantBits - 1), 2>>
TurnStarts == {FHalf, F3, F32Neg(F32Div(F1, F32FromInt(4))), FHuge, F32Neg(FHuge)}

\* The phases a wheel built from TurnStarts takes within MaxTurns calls to
\* next() with the draws of TurnShifts.  The set is closed under next()
\* (TurnsClosed): more calls reach no further phase.
MaxTurns == 10

RECURSIVE TurnClosure(_, _, _)
TurnClosure(seen, frontier, calls) ==
  IF frontier = {} \/ calls = 0 THEN seen \cup frontier
  ELSE TurnClosure(seen \cup frontier,
                   {ColorWheel_next([phase |-> p], k).self.phase :
                      p \in frontier, k \in TurnShifts} \ (seen \cup frontier),
                   calls - 1)

TurnPhases ==
  TurnClosure({}, {with_starting_point(start).phase : start \in TurnStarts}, MaxTurns)

\* ColorWheel_next tabulated over those phases and draws: <<phase, draw, result>>
TurnTable ==
  {<<p, k, ColorWheel_next([phase |-> p], k)>> : p \in TurnPhases, k \in TurnShifts}

TurnResult(phase, shift) ==
  (CHOOSE t \in TurnTable : t[1] = phase /\ t[2] = shift)[3]

\* wheel.next() with the draw `shift`
WheelTurn(shift) ==
  /\ cwPc = "built"
  /\ cw.phase \in TurnPhases
  /\ cw' = TurnResult(cw.phase, shift).self
  /\ cwPc' = IF TurnResult(cw.phase, shift).out = Panic THEN "panicked" ELSE "built"
  /\ UNCHANGED <<cwHues, cwHist, cwStart, opVars, rgVars, hxVars, fcVars, stVars>>

WheelTurnsNext ==
  \/ \E start \in TurnStarts : WheelWithStartingPoint(start)
  \/ \E shift \in TurnShifts : WheelTurn(shift)

SpecWheelTurns == WheelInit /\ [][WheelTurnsNext]_vars /\ WF_vars(WheelTurnsNext)

(***************************************************************************)
(* SpecHex: from_hex of a u32, to_hex of the color, from_hex of that.      *)
(***************************************************************************)
\* High halves with bits 24-31 clear and set, low halves with both bytes
\* varied: among them 0xFF0000, 0x646464 and 0x8F8F8F of the tests.
HexHighs == {0, 255, 100, 143, 18, 256, 43775, 65280, 65535}
HexLows == {0, 255, 65280, 25700, 36751, 13398, 1, 39321, 65535}
HexInputs == {<<hi, lo>> : hi \in HexHighs, lo \in HexLows}

HexInit ==
  /\ hxPc = "start" /\ hxIn \in HexInputs /\ hxColor = BLACK /\ hxOut = <<0, 0>>
  /\ hxBack = BLACK
  /\ OpIdle /\ RangeIdle /\ WheelIdle /\ FloatIdle /\ SetterIdle

\* Color::from_hex(hxIn)
HexRead ==
  /\ hxPc = "start"
  /\ hxPc' = "read"
  /\ hxColor' = from_hex(hxIn)
  /\ UNCHANGED <<hxIn, hxOut, hxBack, opVars, rgVars, cwVars, fcVars, stVars>>

\* color.to_hex()
HexWrite ==
  /\ hxPc = "read"
  /\ hxPc' = "written"
  /\ hxOut' = to_hex(hxColor)
  /\ UNCHANGED <<hxIn, hxColor, hxBack, opVars, rgVars, cwVars, fcVars, stVars>>

\* Color::from_hex(color.to_hex())
HexReadBack ==
  /\ hxPc = "written"
  /\ hxPc' = "back"
  /\ hxBack' = from_hex(hxOut)
  /\ UNCHANGED <<hxIn, hxColor, hxOut, opVars, rgVars, cwVars, fcVars, stVars>>

HexNext == HexRead \/ HexWrite \/ HexReadBack

SpecHex == HexInit /\ [][HexNext]_vars

(***************************************************************************)
(* SpecFloat: one call of a float constructor and, for from_hsl and        *)
(* from_hsv, the same call with the hue one turn further (h + 1.0).        *)
(***************************************************************************)
F32Ratio(n, d) == F32Div(F32FromInt(n), F32FromInt(d))

\* Hues: 0, 0.25, 0.5, 0.75, 1, 1.75, -0.25, -1, 2^25 and -2^25.
HueSamples ==
  {F0, F32Ratio(1, 4), FHalf, F32Ratio(3, 4), F1, F32Ratio(7, 4),
   F32Ratio(-1, 4), F32FromInt(-1), FHuge, F32Neg(FHuge)}

\* Checked components: 0, 0.2, 0.5, 128/255, 1, the f32 next above 1 (which
\* the tolerance of the range test lets pass), 1.5 and -0.5.
UnitSamples ==
  {F0, F32Ratio(1, 5), FHalf, F32Ratio(128, 255), F1, F32Add(F1, EPSILON),
   F32Ratio(3, 2), F32Ratio(-1, 2)}

FloatInit ==
  /\ fcPc = "start" /\ fcOp = "none" /\ fcOut = Idle /\ fcTurned = Idle
  /\ fcArgs \in {<<h, x, y>> : h \in HueSamples, x \in UnitSamples, y \in UnitSamples}
  /\ OpIdle /\ RangeIdle /\ WheelIdle /\ HexIdle /\ SetterIdle

FloatCall(name, result) ==
  /\ fcPc = "start"
  /\ fcPc' = "called"
  /\ fcOp' = name
  /\ fcOut' = result
  /\ UNCHANGED <<fcArgs, fcTurned, opVars, rgVars, cwVars, hxVars, stVars>>

CallFromRgbFloat ==
  FloatCall("from_rgb_float", from_rgb_float(fcArgs[1], fcArgs[2], fcArgs[3]))
CallFromHsl == FloatCall("from_hsl", from_hsl(fcArgs[1], fcArgs[2], fcArgs[3]))
CallFromHsv == FloatCall("from_hsv", from_hsv(fcArgs[1], fcArgs[2], fcArgs[3]))

FloatTurn(name, result) ==
  /\ fcPc = "called"
  /\ fcOp = name
  /\ fcPc' = "turned"
  /\ fcTurned' = result
  /\ UNCHANGED <<fcOp, fcArgs, fcOut, opVars, rgVars, cwVars, hxVars, stVars>>

TurnFromHsl ==
  FloatTurn("from_hsl", from_hsl(F32Add(fcArgs[1], F1), fcArgs[2], fcArgs[3]))
TurnFromHsv ==
  FloatTurn("from_hsv", from_hsv(F32Add(fcArgs[1], F1), fcArgs[2], fcArgs[3]))

FloatNext ==
  \/ CallFromRgbFloat \/ CallFromHsl \/ CallFromHsv
  \/ TurnFromHsl \/ TurnFromHsv

SpecFloat == FloatInit /\ [][FloatNext]_vars

(***************************************************************************)
(* SpecSetter: one call of an HSL or HSV setter on a Color.  stCall is the *)
(* call and its argument, stOld the channels before it.                    *)
(***************************************************************************)
SetterColors ==
  {BLACK, WHITE, new(255, 0, 0), new(0, 0, 255), new(100, 100, 100),
   new(255, 170, 170), new(12, 200, 77), new(1, 255, 255)}

SetterInit ==
  /\ stPc = "start" /\ stColor \in SetterColors /\ stCall = <<"none", F0>>
  /\ stOld = BLACK
  /\ OpIdle /\ RangeIdle /\ WheelIdle /\ HexIdle /\ FloatIdle

\* `color` computed, then self.0 = color.0; self.1 = color.1; self.2 = color.2.
\* A panic or a hang while computing `color` leaves self as it was.
SetterCall(name, x, color) ==
  /\ stPc = "start"
  /\ stPc' = IF color = Panic THEN "panicked"
            ELSE IF color = Hang THEN "hung" ELSE "returned"
  /\ stColor' = IF IsColor(color) THEN new(color[1], color[2], color[3]) ELSE stColor
  /\ stCall' = <<name, x>>
  /\ stOld' = stColor
  /\ UNCHANGED <<opVars, rgVars, cwVars, hxVars, fcVars>>

SetHslHue ==
  \E hue \in HueSamples : SetterCall("set_hsl_hue", hue, set_hsl_hue(stColor, hue))
SetHslSaturation ==
  \E x \in UnitSamples :
    SetterCall("set_hsl_saturation", x, set_hsl_saturation(stColor, x))
SetHslLuminance ==
  \E x \in UnitSamples :
    SetterCall("set_hsl_luminance", x, set_hsl_luminance(stColor, x))
SetHsvHue ==
  \E hue \in HueSamples : SetterCall("set_hsv_hue", hue, set_hsv_hue(stColor, hue))
SetHsvSaturation ==
  \E x \in UnitSamples :
    SetterCall("set_hsv_saturation", x, set_hsv_saturation(stColor, x))
SetHsvValue ==
  \E x \in UnitSamples : SetterCall("set_hsv_value", x, set_hsv_value(stColor, x))

SetterNext ==
  \/ SetHslHue \/ SetHslSaturation \/ SetHslLuminance
  \/ SetHsvHue \/ SetHsvSaturation \/ SetHsvValue

SpecSetter == SetterInit /\ [][SetterNext]_vars

(***************************************************************************)
(* Properties of ColorRange (SpecRange).                                   *)
(***************************************************************************)
Steps == rgArgs[3]
IsSome(x) == Len(x) = 2 /\ x[1] = "Some"
Pink == new(255, 170, 170)

\* C1: for steps >= 1 the range built by range_to(start, end, steps) returns
\* a color from exactly its first `steps` calls to next(), and None from
\* every later call.
C1_YieldsExactlySteps ==
  \A i \in 1..Len(rgHist) :
    IF i <= Steps THEN IsSome(rgHist[i]) ELSE rgHist[i] = None

\* The first next() of pink.range_to(pink, 1) panics in from_hsl.
C1_FirstCallPanics ==
  /\ rgPc = "next_panicked"
  /\ rgArgs = <<Pink, Pink, 1>>
  /\ rgHist = <<Panic>>

\* C2: the first color yielded is start and, for steps >= 2, the steps-th
\* color yielded is end; range_to(c, c, 1) yields exactly c.
C2_FirstIsStartLastIsEnd ==
  /\ Len(rgHist) >= 1 => rgHist[1] = Some(rgArgs[1])
  /\ (Steps >= 2 /\ Len(rgHist) >= Steps) => rgHist[Steps] = Some(rgArgs[2])

\* A range that yields its start and then panics where the end color is due.
C2_EndColorPanics ==
  /\ rgPc = "next_panicked"
  /\ Steps >= 2
  /\ Len(rgHist) = Steps
  /\ rgHist[1] = Some(rgArgs[1])
  /\ rgHist[Steps] = Panic

\* What remains of C1 and C2 in the runs in which from_hsl does not panic:
\* the colors come from the first `steps` calls, None from the later ones, the
\* first color is start and the last is end.
RangeExactUnlessPanic ==
  \A i \in 1..Len(rgHist) :
    rgHist[i] # Panic =>
      /\ IF i <= Steps THEN IsSome(rgHist[i]) ELSE rgHist[i] = None
      /\ i = 1 => rgHist[i] = Some(rgArgs[1])
      /\ (i = Steps /\ Steps >= 2) => rgHist[i] = Some(rgArgs[2])

\* C3: range_to(start, end, 0) panics during construction: no ColorRange is
\* produced and no color is yielded; no other step count panics there.
C3_ZeroStepsPanics ==
  /\ (rgPc # "start" /\ Steps = 0) =>
       rgPc = "new_panicked" /\ rg = NoRange /\ rgHist = <<>>
  /\ rgPc = "new_panicked" => Steps = 0

C3_Witness ==
  /\ rgPc = "new_panicked"
  /\ Steps = 0
  /\ rgArgs[1] = new(255, 0, 0)
  /\ rgArgs[2] = new(0, 255, 0)

(***************************************************************************)
(* Properties of ColorWheel (SpecWheel).                                   *)
(***************************************************************************)
\* C4: next() of a wheel, default or with a starting point, returns a color
\* after any number of productions: never None, never a panic.
C4_WheelAlwaysYields ==
  /\ cwPc # "panicked"
  /\ \A i \in 1..Len(cwHist) : IsSome(cwHist[i])
  /\ cwPc = "built" =>
       \A shift \in Shifts : IsSome(ColorWheel_next(cw, shift).out)

\* Three productions of a wheel whose first hue phase is not below 1.0
\* (with_starting_point(3.0), as in tests::color_wheel).
C4_Witness ==
  /\ cwPc = "built"
  /\ Len(cwHist) >= 3
  /\ F32Ge(cwHues[1], F1)
  /\ \A i \in 1..Len(cwHist) : IsSome(cwHist[i])

\* A phase in units of 2^-27, the distance between the f32 values next to
\* 0.1; all phases of the wheels explored are whole numbers of units.
PhaseUnit == -ShiftLow[2]
\* 2^-24, half the distance between the f32 values in [1, 2), in units.
HalfUlp == 2^(PhaseUnit - MantBits)
Units(x) ==
  IF x[1] = 0 THEN 0
  ELSE IF x[2] >= -PhaseUnit THEN x[1] * (2^(x[2] + PhaseUnit))
  ELSE IF -PhaseUnit - x[2] >= 31 THEN 0
  ELSE x[1] \div (2^(-PhaseUnit - x[2]))
WholeUnits(x) ==
  \/ x[1] = 0
  \/ x[2] >= -PhaseUnit
  \/ -PhaseUnit - x[2] < 31 /\ x[1] % (2^(-PhaseUnit - x[2])) = 0

\* The distance from phase p forward to phase q around the hue circle.
Forward(p, q) == (Units(q) - Units(p)) % (2^PhaseUnit)

\* C5 as stated: consecutive hue phases differ, forward modulo 1, by at
\* least 0.1 and less than 0.2.
C5_ExactSeparation ==
  \A i \in 1..(Len(cwHues) - 1) :
    /\ 5 * Forward(cwHues[i], cwHues[i + 1]) >= 2^(PhaseUnit - 1)
    /\ 5 * Forward(cwHues[i], cwHues[i + 1]) < 2^PhaseUnit

\* C5 amended: for a phase p with -1 <= p < 1.8 the next phase lies forward
\* by at least 0.1 - 2^-24 and less than 0.2 + 2^-24 (2^-24 bounds the
\* rounding of one f32 addition with a sum below 2.0).
C5_SeparationUpToRounding ==
  /\ \A i \in 1..Len(cwHues) : WholeUnits(cwHues[i])
  /\ \A i \in 1..(Len(cwHues) - 1) :
       (Units(cwHues[i]) >= -(2^PhaseUnit) /\ 5 * Units(cwHues[i]) < 9 * (2^PhaseUnit)) =>
         /\ 5 * (Forward(cwHues[i], cwHues[i + 1]) + HalfUlp) >= 2^(PhaseUnit - 1)
         /\ 5 * (Forward(cwHues[i], cwHues[i + 1]) - HalfUlp) < 2^PhaseUnit

\* Three productions: one step across the wrap from below 1.0 back to 0, and
\* one step that rounding leaves shorter than 0.1.
C5_Witness ==
  /\ Len(cwHues) >= 3
  /\ \E i \in 1..(Len(cwHues) - 1) :
       /\ F32Ge(cwHues[i], F0) /\ F32Lt(cwHues[i], F1)
       /\ F32Lt(cwHues[i + 1], cwHues[i])
  /\ \E i \in 1..(Len(cwHues) - 1) :
       5 * Forward(cwHues[i], cwHues[i + 1]) < 2^(PhaseUnit - 1)

(***************************************************************************)
(* Properties of the channel-wise operators (Spec).                        *)
(***************************************************************************)
Channels == 1..3

\* C6: each of a+b, a-b, a*b, a/b, screen, difference, overlay and invert
\* returns a Color for every pair of Colors.
C6_OperatorsNeverFail == op # "none" => IsColor(out)

\* 0xFF9999 / black panics.
C6_DivisionByZeroChannel ==
  /\ op = "div"
  /\ lhs = new(255, 153, 153)
  /\ rhs = BLACK
  /\ out = Panic

\* C7: each channel of a+b is min(x + y, 255) and each channel of a-b is
\* max(x - y, 0), x and y being the same channel of a and b.
C7_AddSubSaturate ==
  /\ op = "add" =>
       IsColor(out) /\ \A i \in Channels : out[i] = Min(lhs[i] + rhs[i], 255)
  /\ op = "sub" =>
       IsColor(out) /\ \A i \in Channels : out[i] = Max(lhs[i] - rhs[i], 0)

\* An addition with a channel that saturates and one that does not.
C7_Witness ==
  /\ op = "add"
  /\ lhs[1] + rhs[1] > 255 /\ out[1] = 255
  /\ lhs[3] + rhs[3] < 255 /\ out[3] = lhs[3] + rhs[3]
  /\ rhs[3] > 0

\* C8: each channel of a*b is floor(x * y / 255); the product does not
\* overflow usize and the quotient fits u8; 0xFF9999 * 0xCCCCCC = (204, 122, 122).
C8_MultiplyExact ==
  op = "mul" =>
    /\ IsColor(out)
    /\ \A i \in Channels :
         /\ out[i] = (lhs[i] * rhs[i]) \div 255
         /\ UsizeMul(lhs[i], rhs[i]) = lhs[i] * rhs[i]
         /\ AsU8((lhs[i] * rhs[i]) \div 255) = (lhs[i] * rhs[i]) \div 255
    /\ (lhs = new(255, 153, 153) /\ rhs = new(204, 204, 204)) =>
         out = new(204, 122, 122)

C8_Witness ==
  /\ op = "mul"
  /\ lhs = new(255, 153, 153)
  /\ rhs = new(204, 204, 204)
  /\ out = new(204, 122, 122)

\* C9: each channel of a.screen(b) is 255 - floor((255 - x) * (255 - y) / 255);
\* no step wraps or is truncated, and the result is not below x nor y.
C9_ScreenExact ==
  op = "screen" =>
    /\ IsColor(out)
    /\ \A i \in Channels :
         /\ out[i] = 255 - (((255 - lhs[i]) * (255 - rhs[i])) \div 255)
         /\ UsizeMul(255 - lhs[i], 255 - rhs[i]) = (255 - lhs[i]) * (255 - rhs[i])
         /\ ((255 - lhs[i]) * (255 - rhs[i])) \div 255 \in 0..255
         /\ out[i] \in 0..255
         /\ out[i] >= lhs[i] /\ out[i] >= rhs[i]

\* screen(0xFF9999, (10, 10, 10)) = 0xFF9D9D
C9_Witness ==
  /\ op = "screen"
  /\ lhs = new(255, 153, 153)
  /\ rhs = new(10, 10, 10)
  /\ out = new(255, 157, 157)

\* C10: c.invert() is c.difference(WHITE), each channel 255 - x; white and
\* black invert to each other and inverting twice gives c back.
C10_InvertIsDifferenceFromWhite ==
  op = "invert" =>
    /\ IsColor(out)
    /\ out = difference(lhs, WHITE)
    /\ \A i \in Channels : out[i] = 255 - lhs[i]
    /\ lhs = WHITE => out = BLACK
    /\ lhs = BLACK => out = WHITE
    /\ invert(out) = lhs

C10_Witness ==
  /\ op = "invert"
  /\ lhs = WHITE
  /\ out = BLACK

(***************************************************************************)
(* Properties of from_hex and to_hex (SpecHex).                            *)
(***************************************************************************)
\* C11: from_hex takes red from bits 16-23, green from bits 8-15 and blue
\* from bits 0-7 and ignores bits 24-31: from_hex(h) = from_hex(h mod 2^24)
\* = new((h >> 16) mod 256, (h >> 8) mod 256, h mod 256).
C11_FromHexReadsThreeBytes ==
  hxPc # "start" =>
    /\ hxColor = new(hxIn[1] % 256, hxIn[2] \div 256, hxIn[2] % 256)
    /\ hxColor = from_hex(<<hxIn[1] % 256, hxIn[2]>>)
    /\ hxIn = <<255, 0>> => hxColor = new(255, 0, 0)

\* from_hex of a value with bits above 23 set and three different bytes.
C11_Witness ==
  /\ hxPc = "read"
  /\ hxIn = <<43775, 13398>>
  /\ hxColor = new(255, 52, 86)

\* C12: from_hex(h).to_hex() = h for every 24-bit h, and
\* from_hex(c.to_hex()) = c for every color c.
C12_HexRoundTrip ==
  /\ (hxPc \in {"written", "back"} /\ hxIn[1] < 256) => hxOut = hxIn
  /\ hxPc = "back" => hxBack = hxColor

\* from_hex(0xFF0000).to_hex() is 0x0000FF, which from_hex reads as blue.
C12_RedComesBackBlue ==
  /\ hxPc = "back"
  /\ hxIn = <<255, 0>>
  /\ hxColor = new(255, 0, 0)
  /\ hxOut = <<0, 255>>
  /\ hxBack = new(0, 0, 255)

\* What to_hex does return: the channels with red in bits 0-7 and blue in
\* bits 16-23, so that only colors with red = blue come back unchanged.
ToHexPacksRedLow ==
  hxPc \in {"written", "back"} =>
    /\ hxOut = <<hxColor[3], hxColor[2] * 256 + hxColor[1]>>
    /\ (hxOut = <<hxIn[1] % 256, hxIn[2]>>) = (hxColor[1] = hxColor[3])

(***************************************************************************)
(* Properties of the float constructors (SpecFloat).                       *)
(***************************************************************************)
\* x in [0, 1]
InUnit(x) == F32Ge(x, F0) /\ ~F32Gt(x, F1)

\* C13: for every hue and every s, l in [0, 1], from_hsl returns (the hue
\* normalization terminates, nothing fails) and
\* from_hsl(h, s, l) = from_hsl(h + 1, s, l).
C13_HslHueIsRotation ==
  (fcOp = "from_hsl" /\ InUnit(fcArgs[2]) /\ InUnit(fcArgs[3])) =>
    /\ IsColor(fcOut)
    /\ fcPc = "turned" => fcTurned = fcOut

\* from_hsl(2^25, 1.0, 0.5) never returns: 2^25 + 1/3 is 2^25 in f32 and
\* `v_h -= 1.0` leaves it there.
C13_HugeHueHangs ==
  /\ fcPc = "called"
  /\ fcOp = "from_hsl"
  /\ fcArgs = <<FHuge, F1, FHalf>>
  /\ fcOut = Hang

\* from_hsl(0.75, 1.0, 0.5) is (128, 0, 255), from_hsl(1.75, 1.0, 0.5) is
\* (127, 0, 255): the roundings of h + 1/3 differ.
HslTurnOffByOne ==
  /\ fcPc = "turned"
  /\ fcOp = "from_hsl"
  /\ fcArgs = <<F32Ratio(3, 4), F1, FHalf>>
  /\ fcOut = new(128, 0, 255)
  /\ fcTurned = new(127, 0, 255)

\* C14: for every hue and every s, v in [0, 1],
\* from_hsv(h, s, v) = from_hsv(h + 1, s, v).
C14_HsvHueIsRotation ==
  (fcOp = "from_hsv" /\ fcPc = "turned" /\ InUnit(fcArgs[2]) /\ InUnit(fcArgs[3])) =>
    fcTurned = fcOut

\* from_hsv(0.5, 1.0, 1.0) is cyan, from_hsv(1.5, 1.0, 1.0) is magenta.
C14_TurnChangesColor ==
  /\ fcPc = "turned"
  /\ fcOp = "from_hsv"
  /\ fcArgs = <<FHalf, F1, F1>>
  /\ fcOut = new(0, 255, 255)
  /\ fcTurned = new(255, 0, 255)

\* C15: from_rgb_float fails iff one of r, g, b is out of range (beyond the
\* epsilon tolerance), from_hsl and from_hsv iff s or l (v) is, whatever the
\* hue; with the checked components in [0, 1] they return a Color.
C15_FailsExactlyOutOfRange ==
  fcPc # "start" =>
    /\ fcOp = "from_rgb_float" =>
         /\ (fcOut = Panic) =
              (OutOfRange(fcArgs[1]) \/ OutOfRange(fcArgs[2]) \/ OutOfRange(fcArgs[3]))
         /\ (InUnit(fcArgs[1]) /\ InUnit(fcArgs[2]) /\ InUnit(fcArgs[3])) =>
              IsColor(fcOut)
    /\ fcOp \in {"from_hsl", "from_hsv"} =>
         /\ (fcOut = Panic) = (OutOfRange(fcArgs[2]) \/ OutOfRange(fcArgs[3]))
         /\ (InUnit(fcArgs[2]) /\ InUnit(fcArgs[3])) => IsColor(fcOut)

\* from_hsl(-2^25, 0.2, 1.0): s and l are in [0, 1] and no Color comes back.
C15_InRangeCallHangs ==
  /\ fcPc = "called"
  /\ fcOp = "from_hsl"
  /\ fcArgs = <<F32Neg(FHuge), F32Ratio(1, 5), F1>>
  /\ fcOut = Hang

\* from_hsl(0.5, 1.0000001, 128/255): s and l pass the range test and a
\* channel computed from them does not.
HslChannelTripsRangeTest ==
  /\ fcPc = "called"
  /\ fcOp = "from_hsl"
  /\ fcArgs = <<FHalf, F32Add(F1, EPSILON), F32Ratio(128, 255)>>
  /\ ~OutOfRange(fcArgs[2]) /\ ~OutOfRange(fcArgs[3])
  /\ fcOut = Panic

\* What remains of C15: apart from the calls of from_hsl that hang and those
\* with s or l in the tolerance band outside [0, 1], the constructors fail
\* exactly on out-of-range checked components.
FloatFailsExactlyOutOfRangeOtherwise ==
  (fcPc # "start" /\ fcOut # Hang) =>
    /\ fcOp = "from_rgb_float" =>
         (fcOut = Panic) =
           (OutOfRange(fcArgs[1]) \/ OutOfRange(fcArgs[2]) \/ OutOfRange(fcArgs[3]))
    /\ (fcOp \in {"from_hsl", "from_hsv"}
          /\ (InUnit(fcArgs[2]) \/ OutOfRange(fcArgs[2]))
          /\ (InUnit(fcArgs[3]) \/ OutOfRange(fcArgs[3]))) =>
         (fcOut = Panic) = (OutOfRange(fcArgs[2]) \/ OutOfRange(fcArgs[3]))
    /\ fcOut # Panic => IsColor(fcOut)

(***************************************************************************)
(* Properties of the phase of a ColorWheel (SpecWheel, SpecWheelTurns).    *)
(***************************************************************************)
PhaseInUnit == F32Ge(cw.phase, F0) /\ F32Lt(cw.phase, F1)

\* C16: the stored phase is in [0, 1) right after construction with the
\* default or with a starting point in [0, 2), and after every next().
C16_PhaseStaysInUnit ==
  (cwPc # "start" /\ F32Ge(cwStart, F0) /\ F32Lt(cwStart, F2)) =>
    /\ PhaseInUnit
    /\ \A i \in 1..Len(cwHues) : F32Ge(cwHues[i], F0) /\ F32Lt(cwHues[i], F1)

\* A wheel started at the f32 next below 2.0 (phase next below 1.0) whose
\* first next() wraps.
C16_Witness ==
  /\ cwPc = "built"
  /\ cwStart = <<2^MantBits - 1, 1 - MantBits>>
  /\ Len(cwHues) >= 2
  /\ F32Lt(cwHues[1], ShiftHigh)
  /\ PhaseInUnit

\* C18: a wheel created with a starting point outside [0, 1) recovers: after
\* finitely many calls to next() its phase lies in [0, 1) and stays there.
C18_WheelRecovers == <>[](cwPc = "built" /\ PhaseInUnit)

\* The tabulated phases are closed under next(): SpecWheelTurns leaves out no
\* call.
TurnsClosed ==
  /\ \A t \in TurnTable : t[3].self.phase \in TurnPhases
  /\ cwPc = "built" => cw.phase \in TurnPhases

\* with_starting_point(2^25): no draw moves the phase.
C18_WheelStuck ==
  /\ cwPc = "built"
  /\ cwStart = FHuge
  /\ ~PhaseInUnit
  /\ \A shift \in TurnShifts \cup Shifts :
       ColorWheel_next(cw, shift).self.phase = cw.phase

\* What remains of C18: the wheels started at 0.5, 3.0 and -0.25 do reach
\* [0, 1) and stay there.
WheelRecoversFromSmallStart ==
  <>[](cwPc = "built" /\ (cwStart \in {FHuge, F32Neg(FHuge)} \/ PhaseInUnit))

(***************************************************************************)
(* Properties of the HSL and HSV setters (SpecSetter).                     *)
(***************************************************************************)
\* What the setter of stCall computes from the channels stOld.
SetterColor ==
  IF stCall[1] = "set_hsl_hue" THEN set_hsl_hue(stOld, stCall[2])
  ELSE IF stCall[1] = "set_hsl_saturation" THEN set_hsl_saturation(stOld, stCall[2])
  ELSE IF stCall[1] = "set_hsl_luminance" THEN set_hsl_luminance(stOld, stCall[2])
  ELSE IF stCall[1] = "set_hsv_hue" THEN set_hsv_hue(stOld, stCall[2])
  ELSE IF stCall[1] = "set_hsv_saturation" THEN set_hsv_saturation(stOld, stCall[2])
  ELSE set_hsv_value(stOld, stCall[2])

\* The setter was given a saturation, lightness or value out of range.
NewComponentOutOfRange ==
  stCall[1] \notin {"set_hsl_hue", "set_hsv_hue"} /\ OutOfRange(stCall[2])

\* C17: a setter either overwrites all three channels with from_hsl/from_hsv
\* of the current triple with the one component replaced, or, when the new
\* saturation, lightness or value is out of range, fails and leaves all three
\* channels unchanged; it does nothing else.
C17_SetterOverwritesOrFails ==
  stPc # "start" =>
    IF NewComponentOutOfRange
    THEN stPc = "panicked" /\ stColor = stOld
    ELSE stPc = "returned" /\ stColor = SetterColor

\* Color::new(255, 170, 170).set_hsl_hue(0.5) panics: no new saturation,
\* lightness or value was given, the saturation to_hsl computed fails the
\* range test of from_hsl.
C17_HueSetterPanics ==
  /\ stPc = "panicked"
  /\ stCall = <<"set_hsl_hue", FHalf>>
  /\ stOld = Pink
  /\ OutOfRange(to_hsl(stOld)[2])

\* What remains of C17: the channels are the computed color after a return
\* and the old channels after a panic or a hang, every out-of-range new
\* component panics, only set_hsl_hue with a hue of magnitude 2^25 hangs, and
\* the HSV setters behave as claimed.
SetterAllOrNothing ==
  stPc # "start" =>
    /\ stPc = "returned" => IsColor(SetterColor) /\ stColor = SetterColor
    /\ stPc \in {"panicked", "hung"} => stColor = stOld
    /\ NewComponentOutOfRange => stPc = "panicked"
    /\ stPc = "hung" => stCall[1] = "set_hsl_hue" /\ stCall[2] \in {FHuge, F32Neg(FHuge)}
    /\ (stPc = "panicked" /\ ~NewComponentOutOfRange) =>
         stCall[1] \in {"set_hsl_hue", "set_hsl_saturation", "set_hsl_luminance"}

====
